---- MODULE Spec2Model ----
(***************************************************************************)
(* Maya Dashboard: the portal client (App, EbookStats, PledgeManagerStats) *)
(* with the requests it has in flight, the README's verify_maya_auth       *)
(* middleware, and the Snapshot Cache of the design document.              *)
(*                                                                         *)
(* Client state is the useState cells of App and of the stats view mounted *)
(* for each page.  An event handler and the effects React runs when it     *)
(* commits the resulting render are one step.  The cells of a view are     *)
(* created with their initial values when it mounts and are gone when it   *)
(* unmounts; a continuation that outlives its view still calls the state   *)
(* setters it closed over, to no effect on the view then in the tree.      *)
(***************************************************************************)
EXTENDS Integers, Sequences, FiniteSets, TLC

\* ------------------------------------------------------------------ bounds
MaxReqs == 2        \* stats / sync requests in flight at once
MaxSyncs == 2       \* activations of the sync control in one run
MaxGen == 2         \* cap of generated_at (logical timestamps 1..MaxGen)
MaxNow == 3         \* last tick of the auth gateway's clock
Ttl == 2            \* JWT_TTL_SECONDS, in ticks
MaxCalls == 2       \* callers of the snapshot cache
MaxRuns == 2        \* aggregator invocations per key in one run
MaxClock == 2       \* last tick of the snapshot cache's clock
MaxEvents == 3      \* events in the window
MaxRows == 41       \* rows of the largest snapshot the table is given

\* --------------------------------------------------------------- constants
Pages == {"ebook", "pledge"}
Paths == {"/", "/ebook", "/pledge-manager"}
PathOf(p) == IF p = "ebook" THEN "/ebook" ELSE "/pledge-manager"

NoData == 0                 \* data === null
NoError == "none"           \* error === null
NoSession == "none"         \* session === null
Claim == "claim"            \* a VerifyResponse {ok, sub, exp}
Pending == -1               \* request not yet answered by the server
Failed == -2                \* non-2xx status or network failure
StatsError == "Request failed"
Passwords == {"", " ", "pw"}

VARIABLES
  auth,         \* App: 'checking' | 'authed' | 'not_authed'
  session,      \* App: VerifyResponse | null
  password,     \* App: content of the password field
  busy,         \* App: a login or logout is running
  error,        \* App: message shown in the error box
  currentPath,  \* App: window.location.pathname as last seen
  refreshSeq,   \* App: ebookRefreshSeq / pledgeRefreshSeq
  syncing,      \* App: ebookSyncing / pledgeSyncing
  authReqs,     \* auth requests in flight
  view,         \* per page: the useState cells of its stats view
  reqs,         \* stats / sync requests in flight
  cacheGen,     \* server: generated_at of the snapshot cached per page
  now,          \* auth gateway: the clock
  jar,          \* auth gateway: the maya_auth_token cookie the browser holds
  gwResp,       \* auth gateway: the response to the last auth request
  cookieDomain, \* auth gateway: COOKIE_DOMAIN of the deployment
  attrs,        \* auth gateway: attributes of the Set-Cookie it last sent
  cleared,      \* auth gateway: tokens whose cookie a logout cleared
  cache,        \* snapshot cache: generatedAt of the snapshot stored per key
  jobs,         \* snapshot cache: aggregator invocations running
  aggRuns,      \* snapshot cache: aggregator invocations started per key
  calls,        \* snapshot cache: the get / refresh call of each caller
  srvNow,       \* snapshot cache: the clock generatedAt is read from
  events,       \* event store: the events in the window
  snapshot,     \* EbookStats table: the EbookStatsResponse held in `data`
  filter,       \* EbookStats table: the selected category
  search,       \* EbookStats table: content of the search box
  page          \* EbookStats table: the page index

clientVars == <<auth, session, password, busy, error, currentPath,
                refreshSeq, syncing, authReqs, view, reqs, cacheGen>>

gwVars == <<now, jar, gwResp, cookieDomain, attrs, cleared>>

cacheVars == <<cache, jobs, aggRuns, calls, srvNow>>

tableVars == <<events, snapshot, filter, search, page>>

serverVars == <<gwVars, cacheVars, tableVars>>

vars == <<clientVars, serverVars>>

\* ------------------------------------------------------------ small helpers
\* String.prototype.trim on the modelled password values
Trim(s) == IF s = " " THEN "" ELSE s

\* mutant: the stats views are rendered whatever auth is
Shown_IgnoresAuth(p, a, path) == path = PathOf(p)

\* the stats view of page p is in the tree App renders
Shown(p, a, path) == a = "authed" /\ path = PathOf(p)

\* useState initial values of a stats view
NewView == [mounted |-> TRUE, data |-> NoData, loading |-> TRUE, error |-> NoError]

NoView == [NewView EXCEPT !.mounted = FALSE]

\* a request in flight: the page and method of its endpoint, whether the view
\* whose effect sent it is still mounted, the `cancelled` flag of that effect
\* run, and the server's answer once there is one.  Requests in flight that
\* agree on all five are one element of reqs.
NewReq(p, m) == [page |-> p, method |-> m, mounted |-> TRUE,
                 cancelled |-> FALSE, resp |-> Pending]

\* the view of page p leaves the tree / enters the tree
Leaves(p, a, path) == view[p].mounted /\ ~Shown(p, a, path)

Enters(p, a, path) == ~view[p].mounted /\ Shown(p, a, path)

\* mutant: the cleanup aborts the fetch, and the server drops the request
Cleanup_Aborts(r) == [r EXCEPT !.mounted = FALSE, !.cancelled = TRUE, !.resp = Failed]

\* cleanups of both effects of a view that unmounts: cancelled = true
Cleanup(r) == [r EXCEPT !.mounted = FALSE, !.cancelled = TRUE]

\* mount effect (GET) and refresh effect (POST unless refreshSeq === 0)
MountEffects(p, n) ==
  {NewReq(p, "GET")} \cup (IF n = 0 THEN {} ELSE {NewReq(p, "POST")})

\* App render: which stats view is in the tree follows auth and currentPath
Render(a, path, seqs) ==
  /\ view' = [p \in Pages |->
               IF Leaves(p, a, path) THEN NoView
               ELSE IF Enters(p, a, path) THEN NewView
               ELSE view[p]]
  /\ reqs' = {IF Leaves(r.page, a, path) /\ r.mounted THEN Cleanup(r) ELSE r
                : r \in reqs}
             \cup UNION {MountEffects(p, seqs[p]) : p \in {q \in Pages : Enters(q, a, path)}}
  /\ Cardinality(reqs') <= MaxReqs

\* ------------------------------------------------------------ auth gateway
PortalPassword == "pw"          \* METRICS_PORTAL_PASSWORD
SharedSecret == "k1"            \* SHARED_JWT_SECRET
Secrets == {"pw", "guess"}      \* passwords a caller may supply
Keys == {"k1", "k2"}            \* keys a token may be signed with
NoDomain == "unset"             \* COOKIE_DOMAIN is not set
Domains == {NoDomain, ".entermaya.com"}

\* HMAC-SHA256 over the canonical claim encoding
Mac(sub, iat, exp, key) == <<sub, iat, exp, key>>

NoCookie == [form |-> "none", sub |-> "", iat |-> 0, exp |-> 0, mac |-> <<>>]

Garbage == [form |-> "garbage", sub |-> "", iat |-> 0, exp |-> 0, mac |-> <<>>]

\* encode(claim): the claim fields and their MAC
Encode(sub, iat, exp, key) ==
  [form |-> "jwt", sub |-> sub, iat |-> iat, exp |-> exp,
   mac |-> Mac(sub, iat, exp, key)]

\* mutant: decode does not look at the expiry
Decode_NoExpiry(token, key, t) ==
  IF token.form # "jwt" THEN "Malformed"
  ELSE IF token.mac # Mac(token.sub, token.iat, token.exp, key) THEN "SignatureInvalid"
  ELSE "ok"

\* mutant: decode looks at the expiry before the signature
Decode_ExpiryFirst(token, key, t) ==
  IF token.form # "jwt" THEN "Malformed"
  ELSE IF token.exp < t THEN "Expired"
  ELSE IF token.mac # Mac(token.sub, token.iat, token.exp, key) THEN "SignatureInvalid"
  ELSE "ok"

\* decode(token): signature before expiry
Decode(token, key, t) ==
  IF token.form # "jwt" THEN "Malformed"
  ELSE IF token.mac # Mac(token.sub, token.iat, token.exp, key) THEN "SignatureInvalid"
  ELSE IF token.exp < t THEN "Expired"
  ELSE "ok"

NoClaim == [sub |-> "", iat |-> 0, exp |-> 0]

\* the payload a decoded token carries
Payload(token) == [sub |-> token.sub, iat |-> token.iat, exp |-> token.exp]

Ok200 == [status |-> 200, body |-> "ok", claim |-> NoClaim]

Unauthorized == [status |-> 401, body |-> "Not authenticated", claim |-> NoClaim]

\* README middleware: the response a protected route gives to a cookie
verify_maya_auth(cookie, t) ==
  IF cookie = NoCookie
    THEN Unauthorized
    ELSE LET d == Decode(cookie, SharedSecret, t)
         IN IF d = "ok" THEN [Ok200 EXCEPT !.claim = Payload(cookie)]
            ELSE IF d = "Expired" THEN [Unauthorized EXCEPT !.body = "Session expired"]
            ELSE [Unauthorized EXCEPT !.body = "Invalid authentication"]

\* the cookies a browser may present: none, garbage, or a token issued at
\* any time and signed with any key, as signed or with the expiry in its
\* payload altered afterwards
Cookies ==
  {NoCookie, Garbage} \cup
  {[Encode("portal", i, i + Ttl, k) EXCEPT !.exp = i + Ttl + d] :
     i \in 0..MaxNow, k \in Keys, d \in {-1, 0, 1}}

\* what apiFetch throws for a 401: the body of the response
AuthFailBodies ==
  {verify_maya_auth(c, MaxNow).body :
     c \in {x \in Cookies : verify_maya_auth(x, MaxNow).status = 401}}

NoAttrs == [domain |-> NoDomain, secure |-> FALSE, sameSite |-> "unset"]

\* mutant: the cookie is SameSite=Lax and not Secure whatever the configuration
attributesFor_AlwaysLax(domain) ==
  [domain |-> domain, secure |-> FALSE, sameSite |-> "Lax"]

\* Cookie Policy: SameSite=None; Secure when COOKIE_DOMAIN is set, SameSite=Lax
\* and not Secure when it is not
attributesFor(domain) ==
  IF domain # NoDomain
    THEN [domain |-> domain, secure |-> TRUE, sameSite |-> "None"]
    ELSE [domain |-> domain, secure |-> FALSE, sameSite |-> "Lax"]

\* the gateway of a deployment whose COOKIE_DOMAIN is one of `domains`
InitGatewayIn(domains) ==
  /\ now = 0
  /\ jar = NoCookie
  /\ gwResp = Ok200
  /\ cookieDomain \in domains
  /\ attrs = NoAttrs
  /\ cleared = {}

\* local development: COOKIE_DOMAIN is not set
InitGateway == InitGatewayIn({NoDomain})

Tick ==
  /\ now < MaxNow
  /\ now' = now + 1
  /\ UNCHANGED <<jar, gwResp, cookieDomain, attrs, cleared>>
  /\ UNCHANGED <<clientVars, cacheVars, tableVars>>

\* mutant: the token minted by login expires when it is issued
GwLogin_NoTtl(supplied) ==
  /\ IF supplied = PortalPassword
       THEN /\ jar' = Encode("portal", now, now, SharedSecret)
            /\ attrs' = attributesFor(cookieDomain)
            /\ gwResp' = Ok200
       ELSE /\ jar' = jar
            /\ attrs' = attrs
            /\ gwResp' = Unauthorized
  /\ UNCHANGED <<now, cookieDomain, cleared>>
  /\ UNCHANGED <<clientVars, cacheVars, tableVars>>

\* POST /api/login
GwLogin(supplied) ==
  /\ IF supplied = PortalPassword
       THEN /\ jar' = Encode("portal", now, now + Ttl, SharedSecret)
            /\ attrs' = attributesFor(cookieDomain)
            /\ gwResp' = Ok200
       ELSE /\ jar' = jar
            /\ attrs' = attrs
            /\ gwResp' = Unauthorized
  /\ UNCHANGED <<now, cookieDomain, cleared>>
  /\ UNCHANGED <<clientVars, cacheVars, tableVars>>

\* mutant: verify rejects a token whose cookie a logout cleared
GwVerify_Revoking ==
  /\ gwResp' = IF jar \in cleared THEN Unauthorized ELSE verify_maya_auth(jar, now)
  /\ UNCHANGED <<now, jar, cookieDomain, attrs, cleared>>
  /\ UNCHANGED <<clientVars, cacheVars, tableVars>>

\* a protected route, GET /api/verify among them
GwVerify ==
  /\ gwResp' = verify_maya_auth(jar, now)
  /\ UNCHANGED <<now, jar, cookieDomain, attrs, cleared>>
  /\ UNCHANGED <<clientVars, cacheVars, tableVars>>

\* POST /api/logout: the cookie is cleared.  `cleared` remembers, for the
\* observer only, the validly signed tokens whose cookie a logout cleared.
GwLogout ==
  /\ jar' = NoCookie
  /\ attrs' = attributesFor(cookieDomain)
  /\ gwResp' = Ok200
  /\ cleared' = IF Decode(jar, SharedSecret, 0) = "ok" THEN cleared \cup {jar} ELSE cleared
  /\ UNCHANGED <<now, cookieDomain>>
  /\ UNCHANGED <<clientVars, cacheVars, tableVars>>

\* the holder of the browser edits the cookie, or presents a copy of a token
SetCookie(c) ==
  /\ c # jar
  /\ jar' = c
  /\ UNCHANGED <<now, gwResp, cookieDomain, attrs, cleared>>
  /\ UNCHANGED <<clientVars, cacheVars, tableVars>>

NextGateway ==
  \/ Tick
  \/ \E supplied \in Secrets : GwLogin(supplied)
  \/ GwVerify
  \/ GwLogout
  \/ \E c \in Cookies : SetCookie(c)

\* ---------------------------------------------------------- snapshot cache
ReportKeys == Pages
Callers == 1..MaxCalls
Absent == 0

IdleCall == [st |-> "idle", op |-> "none", key |-> "none", job |-> 0, ret |-> Absent]

Waiting(op, k, n) == [st |-> "waiting", op |-> op, key |-> k, job |-> n, ret |-> Absent]

Flights(k) == {j \in jobs : j.key = k}

InitCache ==
  /\ cache = [k \in ReportKeys |-> Absent]
  /\ jobs = {}
  /\ aggRuns = [k \in ReportKeys |-> 0]
  /\ calls = [c \in Callers |-> IdleCall]
  /\ srvNow = 1

\* mutant: every refresh starts its own recomputation
Refresh_NoSingleFlight(c, op, k) ==
  /\ aggRuns[k] < MaxRuns
  /\ jobs' = jobs \cup {[key |-> k, no |-> aggRuns[k] + 1]}
  /\ aggRuns' = [aggRuns EXCEPT ![k] = @ + 1]
  /\ calls' = [calls EXCEPT ![c] = Waiting(op, k, aggRuns[k] + 1)]

\* refresh(key) up to its suspension: attach to the recomputation in progress
\* for the key, or start one
Refresh(c, op, k) ==
  IF Flights(k) # {}
    THEN /\ calls' = [calls EXCEPT ![c] = Waiting(op, k, (CHOOSE j \in Flights(k) : TRUE).no)]
         /\ UNCHANGED <<jobs, aggRuns>>
    ELSE /\ aggRuns[k] < MaxRuns
         /\ jobs' = jobs \cup {[key |-> k, no |-> aggRuns[k] + 1]}
         /\ aggRuns' = [aggRuns EXCEPT ![k] = @ + 1]
         /\ calls' = [calls EXCEPT ![c] = Waiting(op, k, aggRuns[k] + 1)]

CacheRefresh(c, k) ==
  /\ calls[c].st = "idle"
  /\ Refresh(c, "refresh", k)
  /\ UNCHANGED <<cache, srvNow>>
  /\ UNCHANGED <<clientVars, gwVars, tableVars>>

\* mutant: get attaches to the refresh in progress for the key
CacheGet_WaitsForRefresh(c, k) ==
  /\ calls[c].st = "idle"
  /\ IF cache[k] # Absent /\ Flights(k) = {}
       THEN /\ calls' = [calls EXCEPT ![c] =
                           [st |-> "returned", op |-> "get", key |-> k, job |-> 0,
                            ret |-> cache[k]]]
            /\ UNCHANGED <<jobs, aggRuns>>
       ELSE Refresh(c, "get", k)
  /\ UNCHANGED <<cache, srvNow>>
  /\ UNCHANGED <<clientVars, gwVars, tableVars>>

\* get(key): the last completed snapshot, or a first refresh when there is none
CacheGet(c, k) ==
  /\ calls[c].st = "idle"
  /\ IF cache[k] # Absent
       THEN /\ calls' = [calls EXCEPT ![c] =
                           [st |-> "returned", op |-> "get", key |-> k, job |-> 0,
                            ret |-> cache[k]]]
            /\ UNCHANGED <<jobs, aggRuns>>
       ELSE Refresh(c, "get", k)
  /\ UNCHANGED <<cache, srvNow>>
  /\ UNCHANGED <<clientVars, gwVars, tableVars>>

\* the calls suspended on recomputation j resume with outcome st and value v
Resume(j, st, v) ==
  [c \in Callers |->
     IF calls[c].st = "waiting" /\ calls[c].key = j.key /\ calls[c].job = j.no
       THEN [calls[c] EXCEPT !.st = st, !.ret = v]
       ELSE calls[c]]

\* mutant: generatedAt is read from a clock that runs backwards
AggregateDone_ClockBackwards(j) ==
  /\ j \in jobs
  /\ jobs' = jobs \ {j}
  /\ cache' = [cache EXCEPT ![j.key] = MaxClock + 1 - srvNow]
  /\ calls' = Resume(j, "returned", MaxClock + 1 - srvNow)
  /\ UNCHANGED <<aggRuns, srvNow>>
  /\ UNCHANGED <<clientVars, gwVars, tableVars>>

\* the aggregator finishes: the stored snapshot is swapped, the waiters return it
AggregateDone(j) ==
  /\ j \in jobs
  /\ jobs' = jobs \ {j}
  /\ cache' = [cache EXCEPT ![j.key] = srvNow]
  /\ calls' = Resume(j, "returned", srvNow)
  /\ UNCHANGED <<aggRuns, srvNow>>
  /\ UNCHANGED <<clientVars, gwVars, tableVars>>

\* mutant: a failed recomputation clears the stored snapshot
AggregateFail_ClearsCache(j) ==
  /\ j \in jobs
  /\ jobs' = jobs \ {j}
  /\ cache' = [cache EXCEPT ![j.key] = Absent]
  /\ calls' = Resume(j, "failed", Absent)
  /\ UNCHANGED <<aggRuns, srvNow>>
  /\ UNCHANGED <<clientVars, gwVars, tableVars>>

\* the event store is unreachable: the stored snapshot stays, the waiters fail
AggregateFail(j) ==
  /\ j \in jobs
  /\ jobs' = jobs \ {j}
  /\ calls' = Resume(j, "failed", Absent)
  /\ UNCHANGED <<cache, aggRuns, srvNow>>
  /\ UNCHANGED <<clientVars, gwVars, tableVars>>

\* the caller takes the outcome of its call and may call again
CallEnds(c) ==
  /\ calls[c].st \in {"returned", "failed"}
  /\ calls' = [calls EXCEPT ![c] = IdleCall]
  /\ UNCHANGED <<cache, jobs, aggRuns, srvNow>>
  /\ UNCHANGED <<clientVars, gwVars, tableVars>>

CacheTick ==
  /\ srvNow < MaxClock
  /\ srvNow' = srvNow + 1
  /\ UNCHANGED <<cache, jobs, aggRuns, calls>>
  /\ UNCHANGED <<clientVars, gwVars, tableVars>>

NextCache ==
  \/ \E c \in Callers, k \in ReportKeys : CacheRefresh(c, k)
  \/ \E c \in Callers, k \in ReportKeys : CacheGet(c, k)
  \/ \E j \in jobs : AggregateDone(j)
  \/ \E j \in jobs : AggregateFail(j)
  \/ \E c \in Callers : CallEnds(c)
  \/ CacheTick

\* ------------------------------------------------- aggregator and table
Subjects == {"A", "B", "C"}
SubjectOrder == <<"A", "B", "C">>
Kinds == {"visit", "download/pdf", "download/epub"}
Event(s, k) == [subject |-> s, kind |-> k]

\* email and name of a subject, as sequences of characters
Email(s) == <<IF s = "A" THEN "a" ELSE IF s = "B" THEN "b" ELSE "c", "@", "m">>

Name(s) == <<s, IF s = "A" THEN "l" ELSE IF s = "B" THEN "o" ELSE "y">>

\* the row of a subject: one boolean flag per category
Row(evs, s) ==
  [id |-> s, email |-> Email(s), name |-> Name(s),
   visited |-> Event(s, "visit") \in evs,
   dl_pdf |-> Event(s, "download/pdf") \in evs,
   dl_epub |-> Event(s, "download/epub") \in evs]

\* aggregate(events, windowDays): a row for each subject present in the
\* window, in a fixed order, and the number of subjects per category; the
\* composite category is the conjunction of two flags
aggregate(evs) ==
  LET present == {e.subject : e \in evs}
      count(P(_)) == Cardinality({x \in present : P(Row(evs, x))})
  IN [ok |-> TRUE,
      user_summary |->
        [visited |-> count(LAMBDA u : u.visited),
         pdf |-> count(LAMBDA u : u.dl_pdf),
         epub |-> count(LAMBDA u : u.dl_epub),
         both |-> count(LAMBDA u : u.dl_pdf /\ u.dl_epub)],
      users |->
        LET keep(x) == x \in present
            order == SelectSeq(SubjectOrder, keep)
        IN [i \in 1..Len(order) |-> Row(evs, order[i])]]

\* data === null: the tiles show 0 (s?.visited ?? 0), the table no row
NoStats ==
  [ok |-> FALSE,
   user_summary |-> [visited |-> 0, pdf |-> 0, epub |-> 0, both |-> 0],
   users |-> <<>>]

\* the categories of the summary tiles with a flag modelled, and 'all'
Filters == {"all", "visited", "pdf", "epub", "both"}
Searches == {<<>>, <<" ">>, <<"a">>, <<"B">>}

ToLowerChar(ch) ==
  IF ch = "A" THEN "a" ELSE IF ch = "B" THEN "b" ELSE IF ch = "C" THEN "c" ELSE ch

\* String.prototype.toLowerCase
ToLower(str) == [i \in 1..Len(str) |-> ToLowerChar(str[i])]

\* String.prototype.trim
RECURSIVE TrimSeq(_)
TrimSeq(str) ==
  IF Len(str) = 0 THEN str
  ELSE IF Head(str) = " " THEN TrimSeq(Tail(str))
  ELSE IF str[Len(str)] = " " THEN TrimSeq(SubSeq(str, 1, Len(str) - 1))
  ELSE str

\* String.prototype.includes
Includes(str, sub) ==
  \E i \in 0..(Len(str) - Len(sub)) : SubSeq(str, i + 1, i + Len(sub)) = sub

\* mutant: the search compares the rows' email and name as they are written
filteredUsers_CaseSensitive(users, f, q) ==
  LET searchLower == TrimSeq(ToLower(q))
      keep(u) ==
        /\ ~(f = "visited" /\ ~u.visited)
        /\ ~(f = "pdf" /\ ~u.dl_pdf)
        /\ ~(f = "epub" /\ ~u.dl_epub)
        /\ ~(f = "both" /\ ~(u.dl_pdf /\ u.dl_epub))
        /\ (Len(searchLower) # 0
            => (Includes(u.email, searchLower) \/ Includes(u.name, searchLower)))
  IN SelectSeq(users, keep)

\* mutant: the 'both' filter keeps the rows with either download flag
filteredUsers_BothIsEither(users, f, q) ==
  LET searchLower == TrimSeq(ToLower(q))
      keep(u) ==
        /\ ~(f = "visited" /\ ~u.visited)
        /\ ~(f = "pdf" /\ ~u.dl_pdf)
        /\ ~(f = "epub" /\ ~u.dl_epub)
        /\ ~(f = "both" /\ ~(u.dl_pdf \/ u.dl_epub))
        /\ (Len(searchLower) # 0
            => (Includes(ToLower(u.email), searchLower)
                \/ Includes(ToLower(u.name), searchLower)))
  IN SelectSeq(users, keep)

\* filteredUsers: the rows that pass the category and the search text
filteredUsers(users, f, q) ==
  LET searchLower == TrimSeq(ToLower(q))
      keep(u) ==
        /\ ~(f = "visited" /\ ~u.visited)
        /\ ~(f = "pdf" /\ ~u.dl_pdf)
        /\ ~(f = "epub" /\ ~u.dl_epub)
        /\ ~(f = "both" /\ ~(u.dl_pdf /\ u.dl_epub))
        /\ (Len(searchLower) # 0
            => (Includes(ToLower(u.email), searchLower)
                \/ Includes(ToLower(u.name), searchLower)))
  IN SelectSeq(users, keep)

\* ---------------------------------------------------------------- pagination
PAGE_SIZE == 20

\* Math.max / Math.min / Math.ceil of a quotient of naturals
MathMax(a, b) == IF a >= b THEN a ELSE b

MathMin(a, b) == IF a <= b THEN a ELSE b

CeilDiv(a, b) == (a + b - 1) \div b

totalPages(rows) == MathMax(1, CeilDiv(Len(rows), PAGE_SIZE))

safePage(rows, pg) == MathMin(MathMax(1, pg), totalPages(rows))

startIdx(rows, pg) ==
  IF Len(rows) = 0 THEN 0 ELSE (safePage(rows, pg) - 1) * PAGE_SIZE + 1

endIdx(rows, pg) == MathMin(Len(rows), safePage(rows, pg) * PAGE_SIZE)

\* Array.prototype.slice(begin, end) with 0 <= begin <= end
Slice(arr, begin, end) == SubSeq(arr, begin + 1, MathMin(end, Len(arr)))

\* mutant: the slice of a page starts one row late
pagedUsers_OffByOne(rows, pg) ==
  Slice(rows, (safePage(rows, pg) - 1) * PAGE_SIZE + 1,
              (safePage(rows, pg) - 1) * PAGE_SIZE + 1 + PAGE_SIZE)

pagedUsers(rows, pg) ==
  Slice(rows, (safePage(rows, pg) - 1) * PAGE_SIZE,
              (safePage(rows, pg) - 1) * PAGE_SIZE + PAGE_SIZE)

\* the updater functions of the Prev and Next buttons
PrevOf(pg) == MathMax(1, pg - 1)

NextOf(rows, pg) == MathMin(totalPages(rows), pg + 1)

\* row i of a large snapshot: about half of the subjects visited, two in
\* three downloaded the pdf, three in four the epub
ListedRow(i) ==
  [id |-> i,
   email |-> <<IF i % 3 = 0 THEN "a" ELSE IF i % 3 = 1 THEN "b" ELSE "c", "@", "m">>,
   name |-> <<IF i % 2 = 0 THEN "A" ELSE "B", "l">>,
   visited |-> i % 2 = 1,
   dl_pdf |-> i % 3 # 0,
   dl_epub |-> i % 4 # 0]

\* a stats response with n rows and the summary of those rows
Listing(n) ==
  LET count(P(_)) == Cardinality({i \in 1..n : P(ListedRow(i))})
  IN [ok |-> TRUE,
      user_summary |->
        [visited |-> count(LAMBDA u : u.visited),
         pdf |-> count(LAMBDA u : u.dl_pdf),
         epub |-> count(LAMBDA u : u.dl_epub),
         both |-> count(LAMBDA u : u.dl_pdf /\ u.dl_epub)],
      users |-> [i \in 1..n |-> ListedRow(i)]]

InitTable ==
  /\ events = {}
  /\ snapshot = NoStats
  /\ filter = "all"
  /\ search = <<>>
  /\ page = 1

\* a subject visits or downloads: the event store gains an event
Track(s, k) ==
  /\ Event(s, k) \notin events
  /\ Cardinality(events) < MaxEvents
  /\ events' = events \cup {Event(s, k)}
  /\ UNCHANGED <<snapshot, filter, search, page>>
  /\ UNCHANGED <<clientVars, gwVars, cacheVars>>

\* the view receives the stats computed from the events: setData(stats),
\* and the effect on [filter, search, data?.users] runs: setPage(1)
LoadStats ==
  /\ snapshot # aggregate(events)
  /\ snapshot' = aggregate(events)
  /\ page' = 1
  /\ UNCHANGED <<events, filter, search>>
  /\ UNCHANGED <<clientVars, gwVars, cacheVars>>

\* mutant: a change of the filter keeps the page index
SetFilter_KeepsPage(f) ==
  /\ f # filter
  /\ filter' = f
  /\ UNCHANGED <<events, snapshot, search, page>>
  /\ UNCHANGED <<clientVars, gwVars, cacheVars>>

\* onTileClick / the filter chips: setFilter, then the effect: setPage(1)
SetFilter(f) ==
  /\ f # filter
  /\ filter' = f
  /\ page' = 1
  /\ UNCHANGED <<events, snapshot, search>>
  /\ UNCHANGED <<clientVars, gwVars, cacheVars>>

\* the search box: setSearch, then the effect: setPage(1)
SetSearch(q) ==
  /\ q # search
  /\ search' = q
  /\ page' = 1
  /\ UNCHANGED <<events, snapshot, filter>>
  /\ UNCHANGED <<clientVars, gwVars, cacheVars>>

\* the view receives a stats response with n rows: setData(stats); its users
\* array is a new object, so the effect runs: setPage(1)
LoadRows(n) ==
  /\ snapshot' = Listing(n)
  /\ page' = 1
  /\ <<snapshot', page'>> # <<snapshot, page>>
  /\ UNCHANGED <<events, filter, search>>
  /\ UNCHANGED <<clientVars, gwVars, cacheVars>>

\* the rows that pass the filter and the search, as the view computes them
Filtered == filteredUsers(snapshot.users, filter, search)

\* click on Prev (disabled={safePage <= 1})
PrevPage ==
  /\ ~(safePage(Filtered, page) <= 1)
  /\ page' = PrevOf(page)
  /\ UNCHANGED <<events, snapshot, filter, search>>
  /\ UNCHANGED <<clientVars, gwVars, cacheVars>>

\* click on Next (disabled={safePage >= totalPages})
NextPage ==
  /\ ~(safePage(Filtered, page) >= totalPages(Filtered))
  /\ page' = NextOf(Filtered, page)
  /\ UNCHANGED <<events, snapshot, filter, search>>
  /\ UNCHANGED <<clientVars, gwVars, cacheVars>>

\* the table of a view that is given snapshots of up to MaxRows rows
NextPages ==
  \/ \E n \in 0..MaxRows : LoadRows(n)
  \/ \E f \in Filters : SetFilter(f)
  \/ \E q \in Searches : SetSearch(q)
  \/ PrevPage
  \/ NextPage

NextTable ==
  \/ \E s \in Subjects, k \in Kinds : Track(s, k)
  \/ LoadStats
  \/ \E f \in Filters : SetFilter(f)
  \/ \E q \in Searches : SetSearch(q)

\* ------------------------------------------------------------------- Init
InitClient ==
  /\ auth = "checking"
  /\ session = NoSession
  /\ password = ""
  /\ busy = FALSE
  /\ error = NoError
  /\ currentPath \in Paths
  /\ refreshSeq = [p \in Pages |-> 0]
  /\ syncing = [p \in Pages |-> FALSE]
  /\ authReqs = {"initVerify"}
  /\ view = [p \in Pages |-> NoView]
  /\ reqs = {}
  /\ cacheGen = [p \in Pages |-> 0]

Init == InitClient /\ InitGateway /\ InitCache /\ InitTable

\* the portal opened on the card grid
InitHome == Init /\ currentPath = "/"

\* ---------------------------------------------------------------- App auth
\* mutant: a failed initial verify leaves auth as it was
InitVerifyResponse_IgnoresFailure(ok) ==
  /\ "initVerify" \in authReqs
  /\ authReqs' = authReqs \ {"initVerify"}
  /\ session' = IF ok THEN Claim ELSE session
  /\ auth' = IF ok THEN "authed" ELSE auth
  /\ Render(auth', currentPath, refreshSeq)
  /\ UNCHANGED <<password, busy, error, currentPath, refreshSeq, syncing, cacheGen>>
  /\ UNCHANGED serverVars

\* initial verify effect
InitVerifyResponse(ok) ==
  /\ "initVerify" \in authReqs
  /\ authReqs' = authReqs \ {"initVerify"}
  /\ session' = IF ok THEN Claim ELSE NoSession
  /\ auth' = IF ok THEN "authed" ELSE "not_authed"
  /\ Render(auth', currentPath, refreshSeq)
  /\ UNCHANGED <<password, busy, error, currentPath, refreshSeq, syncing, cacheGen>>
  /\ UNCHANGED serverVars

SetPassword(pw) ==
  /\ auth # "authed"
  /\ pw # password
  /\ password' = pw
  /\ UNCHANGED <<auth, session, busy, error, currentPath, refreshSeq, syncing,
                 authReqs, view, reqs, cacheGen>>
  /\ UNCHANGED serverVars

\* onLogin up to the first await
OnLogin ==
  /\ auth # "authed"
  /\ ~(busy \/ Trim(password) = "")
  /\ busy' = TRUE
  /\ error' = NoError
  /\ authReqs' = authReqs \cup {"login"}
  /\ UNCHANGED <<auth, session, password, currentPath, refreshSeq, syncing,
                 view, reqs, cacheGen>>
  /\ UNCHANGED serverVars

\* mutant: the catch of onLogin sends the login request again
LoginCatch_Retries(msg, req) ==
  /\ authReqs' = (authReqs \ {req}) \cup {"login"}
  /\ session' = NoSession
  /\ auth' = "not_authed"
  /\ error' = msg
  /\ busy' = FALSE
  /\ Render(auth', currentPath, refreshSeq)
  /\ UNCHANGED <<password, currentPath, refreshSeq, syncing, cacheGen>>

\* mutant: the catch of onLogin keeps the session
LoginCatch_KeepsSession(msg, req) ==
  /\ authReqs' = authReqs \ {req}
  /\ auth' = "not_authed"
  /\ error' = msg
  /\ busy' = FALSE
  /\ Render(auth', currentPath, refreshSeq)
  /\ UNCHANGED <<session, password, currentPath, refreshSeq, syncing, cacheGen>>

\* mutant: the catch of onLogin also clears the password field
LoginCatch_ClearsPassword(msg, req) ==
  /\ authReqs' = authReqs \ {req}
  /\ session' = NoSession
  /\ auth' = "not_authed"
  /\ error' = msg
  /\ busy' = FALSE
  /\ password' = ""
  /\ Render(auth', currentPath, refreshSeq)
  /\ UNCHANGED <<currentPath, refreshSeq, syncing, cacheGen>>

\* catch and finally of onLogin
LoginCatch(msg, req) ==
  /\ authReqs' = authReqs \ {req}
  /\ session' = NoSession
  /\ auth' = "not_authed"
  /\ error' = msg
  /\ busy' = FALSE
  /\ Render(auth', currentPath, refreshSeq)
  /\ UNCHANGED <<password, currentPath, refreshSeq, syncing, cacheGen>>

LoginResponse(ok, msg) ==
  /\ "login" \in authReqs
  /\ IF ok
       THEN /\ authReqs' = (authReqs \ {"login"}) \cup {"loginVerify"}
            /\ UNCHANGED <<auth, session, password, busy, error, currentPath,
                           refreshSeq, syncing, view, reqs, cacheGen>>
       ELSE LoginCatch(msg, "login")
  /\ UNCHANGED serverVars

LoginVerifyResponse(ok, msg) ==
  /\ "loginVerify" \in authReqs
  /\ IF ok
       THEN /\ authReqs' = authReqs \ {"loginVerify"}
            /\ session' = Claim
            /\ auth' = "authed"
            /\ password' = ""
            /\ busy' = FALSE
            /\ Render(auth', currentPath, refreshSeq)
            /\ UNCHANGED <<error, currentPath, refreshSeq, syncing, cacheGen>>
       ELSE LoginCatch(msg, "loginVerify")
  /\ UNCHANGED serverVars

\* mutant: the logout button is not disabled while busy
OnLogout_IgnoresBusy ==
  /\ auth = "authed"
  /\ "logout" \notin authReqs
  /\ busy' = TRUE
  /\ error' = NoError
  /\ authReqs' = authReqs \cup {"logout"}
  /\ UNCHANGED <<auth, session, password, currentPath, refreshSeq, syncing,
                 view, reqs, cacheGen>>
  /\ UNCHANGED serverVars

\* onLogout up to the await
OnLogout ==
  /\ auth = "authed"
  /\ ~busy
  /\ busy' = TRUE
  /\ error' = NoError
  /\ authReqs' = authReqs \cup {"logout"}
  /\ UNCHANGED <<auth, session, password, currentPath, refreshSeq, syncing,
                 view, reqs, cacheGen>>
  /\ UNCHANGED serverVars

\* a logout that starts the refresh-request counters over
LogoutResponse_ResetsSeq(ok) ==
  /\ "logout" \in authReqs
  /\ authReqs' = authReqs \ {"logout"}
  /\ session' = NoSession
  /\ auth' = "not_authed"
  /\ busy' = FALSE
  /\ refreshSeq' = [p \in Pages |-> 0]
  /\ Render(auth', currentPath, refreshSeq')
  /\ UNCHANGED <<password, error, currentPath, syncing, cacheGen>>
  /\ UNCHANGED serverVars

\* mutant: a failed logout request leaves the user logged in
LogoutResponse_OnlyOnSuccess(ok) ==
  /\ "logout" \in authReqs
  /\ authReqs' = authReqs \ {"logout"}
  /\ session' = IF ok THEN NoSession ELSE session
  /\ auth' = IF ok THEN "not_authed" ELSE auth
  /\ busy' = FALSE
  /\ Render(auth', currentPath, refreshSeq)
  /\ UNCHANGED <<password, error, currentPath, refreshSeq, syncing, cacheGen>>
  /\ UNCHANGED serverVars

\* onLogout after the await: the request succeeded (ok) or apiFetch threw;
\* the catch is empty, and finally runs the same setters on both paths
LogoutResponse(ok) ==
  /\ "logout" \in authReqs
  /\ authReqs' = authReqs \ {"logout"}
  /\ session' = NoSession
  /\ auth' = "not_authed"
  /\ busy' = FALSE
  /\ Render(auth', currentPath, refreshSeq)
  /\ UNCHANGED <<password, error, currentPath, refreshSeq, syncing, cacheGen>>
  /\ UNCHANGED serverVars

\* ------------------------------------------------------------ App navigation
\* navigate(path) and the popstate listener: setCurrentPath.  The history
\* stack only ever holds a sub page next to the card grid.
Navigate(path) ==
  /\ path # currentPath
  /\ currentPath = "/" \/ path = "/"
  /\ currentPath' = path
  /\ Render(auth, path, refreshSeq)
  /\ UNCHANGED <<auth, session, password, busy, error, refreshSeq, syncing,
                 authReqs, cacheGen>>
  /\ UNCHANGED serverVars

isSyncing == IF currentPath = "/ebook" THEN syncing["ebook"] ELSE syncing["pledge"]

\* refresh effect re-run of a mounted view after refreshSeq changed:
\* cleanup of the previous run (cancelled = true), then fetchStats('POST')
RefreshEffect(p) ==
  /\ view' = [view EXCEPT ![p].error = NoError]
  /\ reqs' = {IF r.page = p /\ r.mounted /\ r.method = "POST"
                THEN [r EXCEPT !.cancelled = TRUE] ELSE r : r \in reqs}
             \cup {NewReq(p, "POST")}
  /\ Cardinality(reqs') <= MaxReqs

\* mutant: handleSync sets the flag and the counter of both pages
handleSyncCells_BothPages(path, seqs, flags) ==
  IF path \in {"/ebook", "/pledge-manager"}
    THEN [seq |-> [p \in Pages |-> seqs[p] + 1], syn |-> [p \in Pages |-> TRUE]]
    ELSE [seq |-> seqs, syn |-> flags]

\* the body of handleSync: the counters and flags after it ran on page `path`
handleSyncCells(path, seqs, flags) ==
  IF path = "/ebook"
    THEN [seq |-> [seqs EXCEPT !["ebook"] = @ + 1],
          syn |-> [flags EXCEPT !["ebook"] = TRUE]]
  ELSE IF path = "/pledge-manager"
    THEN [seq |-> [seqs EXCEPT !["pledge"] = @ + 1],
          syn |-> [flags EXCEPT !["pledge"] = TRUE]]
  ELSE [seq |-> seqs, syn |-> flags]

\* click on the sync button (rendered on a sub page, disabled={isSyncing})
handleSync(p) ==
  /\ Shown(p, auth, currentPath)
  /\ ~isSyncing
  /\ refreshSeq["ebook"] + refreshSeq["pledge"] < MaxSyncs
  /\ syncing' = handleSyncCells(currentPath, refreshSeq, syncing).syn
  /\ refreshSeq' = handleSyncCells(currentPath, refreshSeq, syncing).seq
  /\ RefreshEffect(p)
  /\ UNCHANGED <<auth, session, password, busy, error, currentPath, authReqs,
                 cacheGen>>
  /\ UNCHANGED serverVars

\* ------------------------------------------------------------------ server
\* GET /api/{kind}/stats returns the cached snapshot, computing it on the
\* first request; POST /api/{kind}/sync recomputes it.  Either may fail.
ServerAnswer(r, ok) ==
  LET p == r.page
      g == IF r.method = "POST" \/ cacheGen[p] = 0
             THEN cacheGen[p] + 1 ELSE cacheGen[p]
  IN /\ r \in reqs
     /\ r.resp = Pending
     /\ IF ok
          THEN /\ g <= MaxGen
               /\ cacheGen' = [cacheGen EXCEPT ![p] = g]
               /\ reqs' = (reqs \ {r}) \cup {[r EXCEPT !.resp = g]}
          ELSE /\ cacheGen' = cacheGen
               /\ reqs' = (reqs \ {r}) \cup {[r EXCEPT !.resp = Failed]}
     /\ UNCHANGED <<auth, session, password, busy, error, currentPath,
                    refreshSeq, syncing, authReqs, view>>
     /\ UNCHANGED serverVars

\* ------------------------------------------------------------- stats views
\* a call of a state setter: the cell it writes and the value
Set(cell, val) == [cell |-> cell, val |-> val]

\* fetchStats after its await: setData(stats), or setData(null) and setError
fetchStats(resp) ==
  IF resp = Failed
    THEN <<Set("data", NoData), Set("error", StatsError)>>
    ELSE <<Set("data", resp)>>

\* mutant: the guard of setLoading(false) is inverted
MountEffectDone_Inverted(cancelled) ==
  IF cancelled THEN <<Set("loading", FALSE)>> ELSE <<>>

\* mount effect after `await fetchStats('GET')`
MountEffectDone(cancelled) ==
  IF ~cancelled THEN <<Set("loading", FALSE)>> ELSE <<>>

\* refresh effect, finally: if (!cancelled) onRefreshComplete()
RefreshEffectDone(s, p, cancelled) ==
  IF ~cancelled THEN [s EXCEPT ![p] = FALSE] ELSE s

\* the setter calls of the continuation that runs when the response of
\* request r reaches the client, in order
Continuation(r) ==
  fetchStats(r.resp) \o (IF r.method = "GET" THEN MountEffectDone(r.cancelled) ELSE <<>>)

\* the cells of a view after a sequence of setter calls
RECURSIVE Apply(_, _)
Apply(v, cs) ==
  IF Len(cs) = 0 THEN v
  ELSE Apply([v EXCEPT ![Head(cs).cell] = Head(cs).val], Tail(cs))

\* the response of a stats / sync request reaches the client and the
\* continuation of the effect that sent it runs; the setters of a view that
\* has left the tree write nothing
Deliver(r) ==
  LET p == r.page
  IN /\ r \in reqs
     /\ r.resp # Pending
     /\ reqs' = reqs \ {r}
     /\ view' = IF r.mounted
                  THEN [view EXCEPT ![p] = Apply(@, Continuation(r))]
                  ELSE view
     /\ syncing' = IF r.method = "POST"
                     THEN RefreshEffectDone(syncing, p, r.cancelled)
                     ELSE syncing
     /\ UNCHANGED <<auth, session, password, busy, error, currentPath,
                    refreshSeq, authReqs, cacheGen>>
     /\ UNCHANGED serverVars

\* ------------------------------------------------------------------- Next
\* the portal with a user who opens pages and syncs
Next ==
  \/ \E ok \in BOOLEAN : InitVerifyResponse(ok)
  \/ \E path \in Paths : Navigate(path)
  \/ \E p \in Pages : handleSync(p)
  \/ \E r \in reqs, ok \in BOOLEAN : ServerAnswer(r, ok)
  \/ \E r \in reqs : Deliver(r)

Spec == Init /\ [][Next]_vars

\* the portal with a user who logs in and out and stays on the page opened
NextLogin ==
  \/ \E ok \in BOOLEAN : InitVerifyResponse(ok)
  \/ \E pw \in Passwords : SetPassword(pw)
  \/ OnLogin
  \/ \E ok \in BOOLEAN, m \in AuthFailBodies : LoginResponse(ok, m)
  \/ \E ok \in BOOLEAN, m \in AuthFailBodies : LoginVerifyResponse(ok, m)
  \/ OnLogout
  \/ \E ok \in BOOLEAN : LogoutResponse(ok)
  \/ \E r \in reqs, ok \in BOOLEAN : ServerAnswer(r, ok)
  \/ \E r \in reqs : Deliver(r)

SpecLogin == Init /\ [][NextLogin]_vars

\* the portal with a user who logs in and out, opens pages and syncs; the
\* user types the password in one go and a failure carries one message
NextPortal ==
  \/ \E ok \in BOOLEAN : InitVerifyResponse(ok)
  \/ SetPassword(PortalPassword)
  \/ OnLogin
  \/ \E ok \in BOOLEAN : LoginResponse(ok, Unauthorized.body)
  \/ \E ok \in BOOLEAN : LoginVerifyResponse(ok, Unauthorized.body)
  \/ OnLogout
  \/ \E ok \in BOOLEAN : LogoutResponse(ok)
  \/ \E path \in Paths : Navigate(path)
  \/ \E p \in Pages : handleSync(p)
  \/ \E r \in reqs, ok \in BOOLEAN : ServerAnswer(r, ok)
  \/ \E r \in reqs : Deliver(r)

SpecPortal == Init /\ [][NextPortal]_vars

\* the auth gateway of any deployment with a browser that presents any cookie
InitDeployed ==
  InitClient /\ currentPath = "/" /\ InitGatewayIn(Domains) /\ InitCache /\ InitTable

SpecGateway == InitDeployed /\ [][NextGateway]_vars

\* the snapshot cache with callers that get and refresh concurrently
SpecCache == InitHome /\ [][NextCache]_vars

\* the event store, the aggregator and the table of the eBook stats view
SpecTable == InitHome /\ [][NextTable]_vars

\* the paginated table of the eBook stats view
SpecPages == InitHome /\ [][NextPages]_vars

\* responses arrive: the GET request of the mounted view is eventually
\* answered and its answer delivered (one view is in the tree at a time, and
\* it has one such request)
GetProgress ==
  \E r \in reqs :
    /\ r.method = "GET" /\ r.mounted
    /\ (\E ok \in BOOLEAN : ServerAnswer(r, ok)) \/ Deliver(r)

Fairness == WF_vars(GetProgress)

SpecFair == Spec /\ Fairness

SpecLoginFair == SpecLogin /\ WF_vars(\E ok \in BOOLEAN : InitVerifyResponse(ok))

\* ------------------------------------------------------------------ claims
LiveReqs(p, m) == {r \in reqs : r.page = p /\ r.method = m /\ r.mounted}

\* C1: if a stats view is unmounted before the response to its initial GET
\* arrives, the continuation of that request calls no state setter of the
\* view afterwards, on success or on failure.
C1_NoMutationAfterUnmount ==
  [][\A r \in reqs :
       (Deliver(r) /\ r.method = "GET" /\ ~r.mounted)
       => Len(Continuation(r)) = 0]_vars

\* C2: when a sync request fails while the view shows a snapshot, the view is
\* afterwards Ready (not loading, syncing flag false), shows the error message
\* and still holds the snapshot it showed.
C2_SyncFailureKeepsData ==
  [][\A r \in reqs :
       ( /\ Deliver(r)
         /\ r.method = "POST" /\ r.resp = Failed /\ r.mounted /\ ~r.cancelled
         /\ ~view[r.page].loading /\ view[r.page].data # NoData )
       => ( /\ ~view'[r.page].loading
            /\ ~syncing'[r.page]
            /\ view'[r.page].error = StatsError
            /\ view'[r.page].data = view[r.page].data )]_vars

\* C3: a mounted stats view has at most one sync request in flight, and while
\* it has one the sync control of its page is disabled.
C3_OneSyncInFlight ==
  \A p \in Pages :
    /\ Cardinality(LiveReqs(p, "POST")) <= 1
    /\ LiveReqs(p, "POST") # {} => syncing[p]

\* C4: a sync request is sent only by a step in which the user activates the
\* sync control (the refresh counter of that page goes up by one); mounting a
\* view sends the GET request only.
C4_SyncOnlyOnActivation ==
  [][\A p \in Pages :
       (NewReq(p, "POST") \in reqs' /\ NewReq(p, "POST") \notin reqs)
       => refreshSeq'[p] = refreshSeq[p] + 1]_vars

\* C5: the response of a sync request whose effect run was cancelled (the
\* view unmounted, or the refresh counter changed) is discarded: the cells of
\* the view in the tree and the parent's syncing flag are unchanged.
C5_StaleSyncDiscarded ==
  [][\A r \in reqs :
       (Deliver(r) /\ r.method = "POST" /\ r.cancelled)
       => (view' = view /\ syncing' = syncing)]_vars

Loading(p) == view[p].mounted /\ view[p].loading

C6_Inv ==
  \A p \in Pages :
    /\ Cardinality(LiveReqs(p, "GET")) <= 1
    /\ view[p].mounted => (view[p].loading <=> LiveReqs(p, "GET") # {})

C6_Step ==
  /\ \A p \in Pages :
       /\ (~view[p].mounted /\ view'[p].mounted)
          => /\ view'[p].loading
             /\ {r \in reqs' : r.page = p /\ r.method = "GET" /\ r.mounted}
                  = {NewReq(p, "GET")}
       /\ (NewReq(p, "GET") \in reqs' /\ NewReq(p, "GET") \notin reqs)
          => (~view[p].mounted /\ view'[p].mounted)
  /\ \A r \in reqs :
       (Deliver(r) /\ r.method = "GET" /\ r.mounted)
       => /\ ~view'[r.page].loading
          /\ view'[r.page].data # NoData \/ view'[r.page].error # NoError
          /\ r.resp # Failed => view'[r.page].data = r.resp
          /\ r.resp = Failed => view'[r.page].error = StatsError

\* C6: a view that mounts is Loading and sends exactly one GET request; it is
\* Loading exactly while that request is in flight; when the response reaches
\* the mounted view it leaves Loading and shows data or an error; and with
\* responses arriving a mounted view does not stay Loading forever.
C6_LoadingEnds ==
  /\ []C6_Inv
  /\ [][C6_Step]_vars
  /\ \A p \in Pages : Loading(p) ~> ~Loading(p)

C6_Witness ==
  \E p \in Pages : view[p].mounted /\ ~view[p].loading /\ view[p].data # NoData

\* C7: the portal starts with auth = 'checking' and one GET /api/verify in
\* flight, which is never sent again; its response sets auth to 'authed' on
\* success and to 'not_authed' on failure; auth never returns to 'checking',
\* and with the response arriving auth eventually leaves 'checking'.
C7_VerifySettles ==
  /\ auth = "checking" /\ "initVerify" \in authReqs
  /\ [][ /\ "initVerify" \in authReqs' => "initVerify" \in authReqs
         /\ auth # "checking" => auth' # "checking"
         /\ \A ok \in BOOLEAN :
              InitVerifyResponse(ok)
              => auth' = IF ok THEN "authed" ELSE "not_authed" ]_vars
  /\ <>(auth # "checking")

C7_Witness ==
  "initVerify" \notin authReqs /\ auth = "not_authed" /\ error = NoError /\ ~busy

OnLoginReqs == authReqs \cap {"login", "loginVerify"}

\* C8: POST /api/login is sent only by a submit of the login form, GET
\* /api/verify of onLogin only by the step that handles the successful login
\* response, at most one of them is in flight, and once a failure is handled
\* (busy false again) no auth request of onLogin is in flight.
C8_NoRetry ==
  /\ [](Cardinality(OnLoginReqs) <= 1 /\ (~busy => OnLoginReqs = {}))
  /\ [][ /\ ("login" \in authReqs' /\ "login" \notin authReqs)
            => (~busy /\ busy' /\ auth # "authed" /\ Trim(password) # "")
         /\ ("loginVerify" \in authReqs' /\ "loginVerify" \notin authReqs)
            => ("login" \in authReqs /\ "login" \notin authReqs'
                /\ busy /\ busy' /\ error' = error /\ auth' = auth)
         /\ (busy /\ ~busy' /\ error' # NoError)
            => (authReqs' \cap {"login", "loginVerify"} = {}) ]_vars

C8_Witness ==
  auth = "not_authed" /\ error # NoError /\ ~busy /\ OnLoginReqs = {}

\* C9: every authentication failure answers 401 with the same body.
C9_UniformFailure == gwResp.status = 401 => gwResp.body = Unauthorized.body

WaitingOn(k) == {c \in Callers : calls[c].st = "waiting" /\ calls[c].key = k}

\* C10: the refresh calls in progress for a key at the same time share one
\* aggregator invocation, exactly one invocation runs for the key while any
\* call waits, and the calls served by one invocation return the same snapshot.
C10_SingleFlight ==
  \A k \in ReportKeys :
    /\ Cardinality(Flights(k)) <= 1
    /\ WaitingOn(k) # {} => Cardinality(Flights(k)) = 1
    /\ \A c1, c2 \in WaitingOn(k) : calls[c1].job = calls[c2].job
    /\ \A c1, c2 \in Callers :
         ( /\ calls[c1].st = "returned" /\ calls[c2].st = "returned"
           /\ calls[c1].key = k /\ calls[c2].key = k
           /\ calls[c1].job # 0 /\ calls[c1].job = calls[c2].job )
         => calls[c1].ret = calls[c2].ret

C10_Witness ==
  \E c1, c2 \in Callers :
    /\ c1 # c2
    /\ calls[c1].st = "returned" /\ calls[c2].st = "returned"
    /\ calls[c1].op = "refresh" /\ calls[c2].op = "refresh"
    /\ calls[c1].key = calls[c2].key
    /\ calls[c1].job = calls[c2].job
    /\ calls[c1].ret = calls[c2].ret /\ calls[c1].ret # Absent
    /\ aggRuns[calls[c1].key] = 1

\* C11: get(key) returns the last completed snapshot in the same step whenever
\* one exists, also while a refresh of the key is in progress, and starts
\* nothing; only when no snapshot was ever stored does it wait, on a refresh
\* of the key; so a get that waits always finds the key without a snapshot.
C11_GetNeverWaits ==
  /\ [](\A c \in Callers :
          (calls[c].st = "waiting" /\ calls[c].op = "get")
          => cache[calls[c].key] = Absent)
  /\ [][\A c \in Callers, k \in ReportKeys :
          CacheGet(c, k)
          => IF cache[k] # Absent
               THEN /\ calls'[c].st = "returned"
                    /\ calls'[c].ret = cache[k]
                    /\ jobs' = jobs /\ aggRuns' = aggRuns
               ELSE /\ calls'[c].st = "waiting"
                    /\ {j \in jobs' : j.key = k} # {}]_vars

C11_Witness ==
  \E c \in Callers :
    /\ calls[c].st = "returned" /\ calls[c].op = "get"
    /\ calls[c].job = 0 /\ calls[c].ret # Absent
    /\ Flights(calls[c].key) # {}

\* C12: a recomputation that fails leaves the snapshot stored for every key
\* as it was and fails the calls that wait on it, and a get of a key with a
\* stored snapshot returns that snapshot, also after a failed refresh.
C12_FailureIsolation ==
  /\ [][\A j \in jobs :
          AggregateFail(j)
          => /\ cache' = cache
             /\ \A c \in Callers :
                  (calls[c].st = "waiting" /\ calls[c].key = j.key)
                  => (calls'[c].st = "failed" /\ calls'[c].ret = Absent)]_vars
  /\ [][\A c \in Callers, k \in ReportKeys :
          (CacheGet(c, k) /\ cache[k] # Absent) => calls'[c].ret = cache[k]]_vars

C12_Witness ==
  \E c1, c2 \in Callers :
    /\ calls[c1].st = "failed" /\ calls[c1].op = "refresh"
    /\ calls[c2].st = "returned" /\ calls[c2].op = "get"
    /\ calls[c2].key = calls[c1].key /\ calls[c2].job = 0
    /\ calls[c2].ret = cache[calls[c1].key] /\ calls[c2].ret # Absent

\* C13: the generatedAt stored for a key never decreases, and a call that
\* returns in a step returns the generatedAt stored for its key after that
\* step; so the values returned for a key, in the order of return, never
\* decrease.
C13_GeneratedAtMonotone ==
  /\ [][\A k \in ReportKeys :
          /\ cache'[k] >= cache[k]
          /\ \A c \in Callers :
               ( /\ calls'[c].st = "returned" /\ calls[c].st # "returned"
                 /\ calls'[c].key = k )
               => calls'[c].ret = cache'[k]]_vars
  /\ [](\A c \in Callers :
          calls[c].st = "returned" => calls[c].ret <= cache[calls[c].key])

C13_Witness ==
  \E c1, c2 \in Callers :
    /\ calls[c1].st = "returned" /\ calls[c1].op = "refresh" /\ calls[c1].job = 1
    /\ calls[c2].st = "returned" /\ calls[c2].op = "refresh" /\ calls[c2].job = 2
    /\ calls[c1].key = calls[c2].key
    /\ calls[c1].ret < calls[c2].ret

\* C14: login with the configured password answers 200 and issues a token
\* that verify accepts at every time before its expiry, returning the subject
\* minted, issuedAt = now and expiresAt = issuedAt + ttl; login with any other
\* secret answers 401 and leaves the cookie as it was; and every claim verify
\* returns has expiresAt = issuedAt + ttl.
C14_LoginThenVerify ==
  /\ [][\A supplied \in Secrets :
          GwLogin(supplied)
          => IF supplied = PortalPassword
               THEN /\ gwResp'.status = 200
                    /\ \A t \in now..(now + Ttl - 1) :
                         LET r == verify_maya_auth(jar', t)
                         IN /\ r.status = 200
                            /\ r.claim.sub = jar'.sub
                            /\ r.claim.iat = now
                            /\ r.claim.exp = r.claim.iat + Ttl
               ELSE /\ gwResp'.status = 401
                    /\ jar' = jar /\ attrs' = attrs]_vars
  /\ []((gwResp.status = 200 /\ gwResp.claim # NoClaim)
        => (gwResp.claim.sub = "portal" /\ gwResp.claim.exp = gwResp.claim.iat + Ttl))

C14_Witness ==
  /\ gwResp.status = 200 /\ gwResp.claim = Payload(jar)
  /\ jar = Encode("portal", jar.iat, jar.iat + Ttl, SharedSecret)
  /\ jar.iat < now /\ now < jar.exp

\* C15: verify answers 401 to every token whose expiry is earlier than the
\* time of verification, validly signed or not, and answers 200 only at times
\* not later than the expiry the token carries.
C15_ExpiredRejected ==
  /\ [](\A c \in Cookies, t \in 0..MaxNow :
          /\ (c.form = "jwt" /\ c.exp < t) => verify_maya_auth(c, t).status = 401
          /\ verify_maya_auth(c, t).status = 200 => t <= c.exp)
  /\ [][GwVerify
        => /\ (jar.form = "jwt" /\ jar.exp < now) => gwResp'.status = 401
           /\ gwResp'.status = 200 => now <= jar.exp]_vars

C15_Witness ==
  /\ jar = Encode("portal", jar.iat, jar.iat + Ttl, SharedSecret)
  /\ jar.exp < now
  /\ gwResp.status = 401 /\ gwResp.body = "Session expired"

\* tokens whose payload differs from the payload their MAC was computed over
Tampered ==
  {c \in Cookies : c.form = "jwt" /\ <<c.sub, c.iat, c.exp>> # SubSeq(c.mac, 1, 3)}

\* C16: verify answers 401 to every token whose payload was altered after
\* signing, and decode reports the bad signature, not the expiry, whether the
\* expiry the token carries is past or still ahead.
C16_TamperedRejected ==
  /\ [](\A c \in Tampered, t \in 0..MaxNow :
          /\ Decode(c, SharedSecret, t) = "SignatureInvalid"
          /\ verify_maya_auth(c, t).status = 401)
  /\ [][(GwVerify /\ jar \in Tampered)
        => (gwResp'.status = 401 /\ gwResp'.body = "Invalid authentication")]_vars

C16_Witness ==
  /\ jar \in Tampered /\ jar.mac[4] = SharedSecret
  /\ jar.exp < now
  /\ gwResp.status = 401 /\ gwResp.body = "Invalid authentication"

\* C17: the attributes of a cookie the gateway sets are Secure with
\* SameSite=None when COOKIE_DOMAIN is set and not Secure with SameSite=Lax
\* when it is not, and the policy yields no other combination.
C17_CookieAttributes ==
  /\ \A d \in Domains :
       <<attributesFor(d).secure, attributesFor(d).sameSite>>
         = IF d # NoDomain THEN <<TRUE, "None">> ELSE <<FALSE, "Lax">>
  /\ attrs # NoAttrs
     => /\ attrs.domain = cookieDomain
        /\ <<attrs.secure, attrs.sameSite>>
             = IF cookieDomain # NoDomain THEN <<TRUE, "None">> ELSE <<FALSE, "Lax">>

C17_Witness ==
  /\ cookieDomain # NoDomain /\ attrs.secure /\ attrs.sameSite = "None"
  /\ jar = Encode("portal", jar.iat, jar.iat + Ttl, SharedSecret)

\* C18: logout only clears the browser's cookie: a token whose cookie a
\* logout cleared is accepted by verify afterwards at every time before its
\* expiry, with the claim it carries.
C18_LogoutRevokesNothing ==
  [][(GwVerify /\ jar \in cleared /\ now < jar.exp)
     => (gwResp'.status = 200 /\ gwResp'.claim = Payload(jar))]_vars

C18_Witness ==
  /\ jar \in cleared /\ now < jar.exp
  /\ gwResp.status = 200 /\ gwResp.claim = Payload(jar)

\* the rows the table shows
Shown19(f) == filteredUsers(snapshot.users, f, search)

\* C19: every count of the summary is the number of rows whose flag of that
\* category is true, 'both' counting the rows with the pdf flag and the epub
\* flag; the batch A: download/pdf + visit, B: download/epub gives visited = 1,
\* pdf = 1, epub = 1, both = 0; the 'both' filter keeps exactly the rows with
\* dl_pdf and dl_epub; and with a blank search the table shows, under every
\* category, as many rows as the tile of that category counts.
C19_SummaryMatchesRows ==
  LET batch == {Event("A", "download/pdf"), Event("A", "visit"), Event("B", "download/epub")}
      rows == {snapshot.users[i] : i \in 1..Len(snapshot.users)}
      sum == snapshot.user_summary
  IN /\ aggregate(batch).user_summary = [visited |-> 1, pdf |-> 1, epub |-> 1, both |-> 0]
     /\ sum.visited = Cardinality({u \in rows : u.visited})
     /\ sum.pdf = Cardinality({u \in rows : u.dl_pdf})
     /\ sum.epub = Cardinality({u \in rows : u.dl_epub})
     /\ sum.both = Cardinality({u \in rows : u.dl_pdf /\ u.dl_epub})
     /\ Len(snapshot.users) = Cardinality(rows)
     /\ Len(TrimSeq(search)) = 0
        => /\ {Shown19("both")[i] : i \in 1..Len(Shown19("both"))}
                = {u \in rows : u.dl_pdf /\ u.dl_epub}
           /\ \A f \in Filters \ {"all"} : Len(Shown19(f)) = sum[f]
           /\ Len(Shown19("all")) = Len(snapshot.users)

C19_Witness ==
  /\ snapshot = aggregate({Event("A", "download/pdf"), Event("A", "visit"),
                           Event("B", "download/epub")})
  /\ filter = "visited" /\ search = <<" ">>
  /\ Len(Shown19(filter)) = 1 /\ snapshot.user_summary.both = 0

\* C20: a refresh-request counter never decreases; a step changes the
\* counters only when it is an activation of the sync control (the page shown
\* starts syncing), and that step adds exactly one to the counter of the page
\* shown and leaves the other counter alone; navigation, unmount, an answer
\* or a failure of a request, logout and login leave both counters as they are.
C20_RefreshSeqOnlySync ==
  [][/\ \A p \in Pages : refreshSeq'[p] >= refreshSeq[p]
     /\ \A p \in Pages :
          (~syncing[p] /\ syncing'[p])
            => /\ Shown(p, auth, currentPath)
               /\ refreshSeq' = [refreshSeq EXCEPT ![p] = @ + 1]
     /\ refreshSeq' # refreshSeq
          => \E p \in Pages : ~syncing[p] /\ syncing'[p]
     /\ (auth' # auth \/ currentPath' # currentPath \/ authReqs' # authReqs
           \/ cacheGen' # cacheGen \/ Cardinality(reqs') < Cardinality(reqs))
          => refreshSeq' = refreshSeq]_vars

\* both pages were synced once, and the user has logged out since
C20_Witness ==
  /\ auth = "not_authed" /\ session = NoSession
  /\ refreshSeq["ebook"] = 1 /\ refreshSeq["pledge"] = 1

\* C21: a view that leaves the tree while its sync request is in flight sends
\* no abort: the request stays in flight at the server, unanswered requests
\* are never dropped, the server's answer to an abandoned sync replaces the
\* cached snapshot of its page by a newer one, and a later stats request of
\* that page is answered with the snapshot then cached.
C21_AbandonKeepsRefresh ==
  [][/\ \A r \in reqs :
          (r.method = "POST" /\ r.mounted /\ r.resp = Pending
             /\ Leaves(r.page, auth', currentPath'))
            => [r EXCEPT !.mounted = FALSE, !.cancelled = TRUE] \in reqs'
     /\ \A r \in reqs :
          (r.resp = Pending /\ r \notin reqs')
            => \E q \in reqs' : q.page = r.page /\ q.method = r.method
                                /\ (q.resp # Pending \/ ~q.mounted \/ q.cancelled)
     /\ \A r \in reqs :
          (ServerAnswer(r, TRUE) /\ r.method = "POST" /\ ~r.mounted)
            => /\ cacheGen'[r.page] = cacheGen[r.page] + 1
               /\ [r EXCEPT !.resp = cacheGen'[r.page]] \in reqs'
     /\ \A r \in reqs :
          (ServerAnswer(r, TRUE) /\ r.method = "GET" /\ cacheGen[r.page] # 0)
            => [r EXCEPT !.resp = cacheGen[r.page]] \in reqs']_vars

\* an abandoned sync was answered and its result is the cached snapshot
C21_Witness ==
  \E r \in reqs :
    /\ r.method = "POST" /\ ~r.mounted /\ r.cancelled
    /\ r.resp = cacheGen[r.page] /\ r.resp >= 1

\* C22: once auth is 'authed' and no login is running, auth stays 'authed'
\* and the session stays set until the user logs out; no other step, the
\* arrival of the response of the initial GET /api/verify included, moves
\* auth away from 'authed' or clears the session.
C22_AuthedUntilLogout ==
  [][(auth = "authed" /\ authReqs \cap {"login", "loginVerify", "logout"} = {})
       => (auth' = "authed" /\ session' = session)]_vars

\* C23: while a stats view stays mounted, the generated_at of the snapshot it
\* displays never decreases: a step that replaces a displayed snapshot
\* replaces it by one that is at least as new.
C23_DisplayedNeverOlder ==
  [][\A p \in Pages :
       (view[p].mounted /\ view'[p].mounted
          /\ view[p].data # NoData /\ view'[p].data # NoData)
       => view'[p].data >= view[p].data]_vars

\* C24: whenever the syncing flag of a page is true, a sync request of that
\* page is in flight whose completion clears the flag, that is, one sent by
\* an effect run that has not been cancelled.
C24_SyncingHasRequest ==
  \A p \in Pages :
    syncing[p] => \E r \in reqs : r.page = p /\ r.method = "POST" /\ ~r.cancelled

\* C25: onLogin ends, with busy false, in one of two ways.  When POST
\* /api/login and the GET /api/verify after it both succeeded, auth is
\* 'authed', session is the verify response and the password field is empty.
\* When either failed, auth is 'not_authed', session is null, the error box
\* shows the message of the failure and the password field is as it was.
\* Until then, a successful POST /api/login alone changes none of them.
C25_LoginOutcome ==
  [][\A m \in AuthFailBodies :
       /\ LoginVerifyResponse(TRUE, m)
            => /\ auth' = "authed" /\ session' = Claim
               /\ password' = "" /\ ~busy' /\ error' = error
       /\ (LoginResponse(FALSE, m) \/ LoginVerifyResponse(FALSE, m))
            => /\ auth' = "not_authed" /\ session' = NoSession
               /\ error' = m /\ password' = password /\ ~busy'
       /\ LoginResponse(TRUE, m)
            => /\ busy' /\ auth' = auth /\ session' = session
               /\ password' = password /\ error' = error]_vars

\* a login has failed: the message is shown and the password is still there
C25_Witness ==
  /\ auth = "not_authed" /\ session = NoSession /\ ~busy
  /\ error \in AuthFailBodies /\ password = PortalPassword
  /\ authReqs \cap {"login", "loginVerify"} = {}

\* C26: onLogout ends with auth = 'not_authed', session = null and busy =
\* false when POST /api/logout succeeded and when it failed, and it sets no
\* error message: the error box is empty when it ends.
C26_LogoutOutcome ==
  [][\A ok \in BOOLEAN :
       LogoutResponse(ok)
         => /\ auth' = "not_authed" /\ session' = NoSession /\ ~busy'
            /\ error' = error /\ error' = NoError]_vars

\* a logout has ended: the view it unmounted still has a request in flight
C26_Witness ==
  /\ auth = "not_authed" /\ session = NoSession /\ ~busy /\ error = NoError
  /\ "logout" \notin authReqs
  /\ \E r \in reqs : ~r.mounted

\* C27: in every reachable state of the portal, session is non-null if and
\* only if auth is 'authed'.
C27_SessionIffAuthed ==
  (session # NoSession) <=> (auth = "authed")

\* a login succeeded while the initial verify is still in flight
C27_Witness ==
  /\ auth = "authed" /\ session = Claim /\ ~busy
  /\ authReqs = {"initVerify"}

\* C28: whenever a mounted stats view is not loading and none of the requests
\* of its effects is in flight, exactly one of data and error is non-null.
C28_DataXorError ==
  \A p \in Pages :
    (view[p].mounted /\ ~view[p].loading
       /\ LiveReqs(p, "GET") = {} /\ LiveReqs(p, "POST") = {})
    => ((view[p].data # NoData) # (view[p].error # NoError))

\* the requests of a running onLogin or onLogout
AuthOps == authReqs \cap {"login", "loginVerify", "logout"}

\* C29: at most one login or logout is running at any time, busy is true
\* exactly while one is running, and a login or logout starts only when busy
\* is false.
C29_Inv ==
  /\ Cardinality(AuthOps) <= 1
  /\ busy <=> AuthOps # {}

C29_Step ==
  (AuthOps' \ AuthOps) \cap {"login", "logout"} # {} => ~busy

C29_OneAuthOp ==
  /\ []C29_Inv
  /\ [][C29_Step]_vars

\* a login is running while the portal is 'authed' and shows the logout
\* button, disabled
C29_Witness ==
  /\ auth = "authed" /\ busy
  /\ AuthOps = {"loginVerify"}

\* C30: a stats view is mounted only while auth is 'authed' (and its page is
\* the one open); a step sends a stats or sync request only if auth is
\* 'authed' after it and the view of the request's page is mounted; and when
\* a logout ends no stats view is mounted.
C30_Inv ==
  \A p \in Pages : view[p].mounted => (auth = "authed" /\ currentPath = PathOf(p))

C30_Step ==
  /\ \A p \in Pages, m \in {"GET", "POST"} :
       (NewReq(p, m) \in reqs' /\ NewReq(p, m) \notin reqs)
         => (auth' = "authed" /\ view'[p].mounted)
  /\ \A ok \in BOOLEAN :
       LogoutResponse(ok) => \A p \in Pages : ~view'[p].mounted

C30_OnlyWhileAuthed ==
  /\ []C30_Inv
  /\ [][C30_Step]_vars

\* a logout unmounted the view of the open page while its sync was in flight
C30_Witness ==
  /\ auth = "not_authed" /\ currentPath = "/ebook" /\ ~view["ebook"].mounted
  /\ \E r \in reqs : r.page = "ebook" /\ r.method = "POST" /\ ~r.mounted
  /\ "logout" \notin authReqs

\* C31: a step that changes the filter, the search text or the rows of the
\* snapshot sets the page index to 1; the page index, and so the page
\* displayed, is always within 1..totalPages, where totalPages is 1 for no
\* row and otherwise the least number of pages of 20 rows that hold the
\* filtered rows; Prev on page 1 and Next on the last page leave the page
\* index as it is.
C31_Inv ==
  LET n == Len(Filtered)
      t == totalPages(Filtered)
      shown == safePage(Filtered, page)
  IN /\ t >= 1 /\ t * 20 >= n /\ (t > 1 => (t - 1) * 20 < n)
     /\ shown \in 1..t
     /\ page = shown
     /\ shown = 1 => PrevOf(page) = page
     /\ shown = t => NextOf(Filtered, page) = page

C31_Step ==
  (filter' # filter \/ search' # search \/ snapshot'.users # snapshot.users)
    => page' = 1

C31_PageInRange ==
  /\ []C31_Inv
  /\ [][C31_Step]_vars

\* the second of two pages of the rows with a pdf download is displayed
C31_Witness ==
  /\ filter = "pdf" /\ Len(Filtered) > PAGE_SIZE
  /\ page = 2 /\ totalPages(Filtered) = 2

\* pages 1..k of a list, one after the other
RECURSIVE PagesUpTo(_, _)
PagesUpTo(rows, k) ==
  IF k = 0 THEN <<>> ELSE PagesUpTo(rows, k - 1) \o pagedUsers(rows, k)

\* C32: pages 1..totalPages of the filtered rows, one after the other, are
\* the filtered rows (every row on exactly one page, in the original order);
\* a page holds at most 20 rows and every page but the last exactly 20; the
\* 'Showing start-end' indices are 0 and 0 for no row, and otherwise
\* 1 <= start <= end <= n with end - start + 1 the number of rows of the page.
C32_PagesPartition ==
  LET rows == Filtered
      n == Len(rows)
      t == totalPages(rows)
  IN /\ PagesUpTo(rows, t) = rows
     /\ \A k \in 1..t :
          /\ Len(pagedUsers(rows, k)) <= 20
          /\ k < t => Len(pagedUsers(rows, k)) = 20
          /\ n = 0 => (startIdx(rows, k) = 0 /\ endIdx(rows, k) = 0)
          /\ n # 0 => /\ 1 <= startIdx(rows, k)
                      /\ startIdx(rows, k) <= endIdx(rows, k)
                      /\ endIdx(rows, k) <= n
                      /\ endIdx(rows, k) - startIdx(rows, k) + 1
                           = Len(pagedUsers(rows, k))
                      /\ pagedUsers(rows, k)
                           = SubSeq(rows, startIdx(rows, k), endIdx(rows, k))

\* the third page of 41 rows is displayed: it holds the last row
C32_Witness ==
  /\ Len(Filtered) = 41 /\ page = 3
  /\ pagedUsers(Filtered, page) = <<ListedRow(41)>>
  /\ startIdx(Filtered, page) = 41 /\ endIdx(Filtered, page) = 41

\* row u satisfies the selected category
InCategory(u, f) ==
  \/ f = "all"
  \/ f = "visited" /\ u.visited
  \/ f = "pdf" /\ u.dl_pdf
  \/ f = "epub" /\ u.dl_epub
  \/ f = "both" /\ u.dl_pdf /\ u.dl_epub

\* text contains q, letters compared without regard to case
ContainsNoCase(text, q) ==
  \E i \in 0..(Len(text) - Len(q)) :
    \A j \in 1..Len(q) : ToLowerChar(text[i + j]) = ToLowerChar(q[j])

\* C33: the rows shown are the rows of the snapshot that satisfy the selected
\* category and, when the trimmed search text is non-empty, contain it in
\* their email or name without regard to case, in the order of the snapshot;
\* with filter 'all' and a blank search they are all rows of the snapshot.
C33_FilteredSubsequence ==
  LET users == snapshot.users
      q == TrimSeq(search)
      K == {i \in 1..Len(users) :
              /\ InCategory(users[i], filter)
              /\ Len(q) # 0 => (ContainsNoCase(users[i].email, q)
                                 \/ ContainsNoCase(users[i].name, q))}
      nth(j) == CHOOSE i \in K : Cardinality({k \in K : k <= i}) = j
  IN /\ Len(Filtered) = Cardinality(K)
     /\ \A j \in 1..Len(Filtered) : Filtered[j] = users[nth(j)]
     /\ (filter = "all" /\ Len(q) = 0) => Filtered = users

\* the search 'B' under the epub filter shows rows named Bl and rows with
\* the email b@m, and leaves rows out
C33_Witness ==
  /\ filter = "epub" /\ search = <<"B">>
  /\ Len(snapshot.users) = 12
  /\ [i \in 1..Len(Filtered) |-> Filtered[i].id] = <<1, 3, 5, 7, 9, 10, 11>>

\* C34: an activation of the sync control on a stats page adds one to the
\* counter of that page and sets its syncing flag, and leaves the counter and
\* the flag of the other page, auth, the session and the other cells of App
\* as they are; handleSync run when no stats page is shown changes neither
\* counters nor flags.
C34_Inv ==
  handleSyncCells("/", refreshSeq, syncing) = [seq |-> refreshSeq, syn |-> syncing]

C34_Step ==
  \A p \in Pages :
    handleSync(p)
      => /\ refreshSeq'[p] = refreshSeq[p] + 1 /\ syncing'[p]
         /\ \A o \in Pages \ {p} :
              refreshSeq'[o] = refreshSeq[o] /\ syncing'[o] = syncing[o]
         /\ auth' = auth /\ session' = session
         /\ <<password, busy, error, currentPath>>' = <<password, busy, error, currentPath>>

C34_SyncFrame ==
  /\ []C34_Inv
  /\ [][C34_Step]_vars

\* a sync of the eBook page is running; the pledge page was synced before and
\* its flag is clear
C34_Witness ==
  /\ currentPath = "/ebook" /\ syncing["ebook"] /\ ~syncing["pledge"]
  /\ refreshSeq = [p \in Pages |-> 1]

====
